---- MODULE Spec2Model ----
(***************************************************************************)
(* State-machine model of the virtual try-on UI of the optics store:       *)
(* the camera try-on components (VirtualTryOn3D, Simple3DTryOn), the       *)
(* try-on dialog with its error boundary, the Three.js viewers, the        *)
(* client-only 3D preview, the calibration previews, the detect loop of    *)
(* the MediaPipe viewer and the upload routes.  One of them is followed    *)
(* per behaviour; the                                                      *)
(* variable `component` says which one, and every action is an event       *)
(* handler, an effect, or the continuation of an async function after an   *)
(* await.  React state setters are modelled as committed with the step     *)
(* that calls them; refs are plain variables.  A behaviour covers the      *)
(* component from its mount on, while it stays mounted.                    *)
(***************************************************************************)
EXTENDS Integers, FiniteSets, Sequences, TLC

VARIABLES
    component,          \* which component is mounted
    op,                 \* name of the last step taken (history)
    error,              \* useState<string | null>: error
    \* ---- VirtualTryOn3D / Simple3DTryOn
    isStarting,         \* useState(false)
    isFrontCamera,      \* useState(true)
    faceData,           \* useState<FaceTrackingData | null>
    isLowPerformance,   \* useState(false), set by detectPerformance on mount
    landmarkerRef,      \* landmarkerRef.current is set
    detectorRef,        \* detectorRef.current is set
    rafRef,             \* rafRef.current holds a pending animation frame
    frameSkip,          \* frameSkip.current, modulo 2
    streamRef,          \* streamRef.current: stream id, 0 for null
    srcObject,          \* video.srcObject: stream id, 0 for null
    readyState,         \* video.readyState: 0, 1 (metadata), 2 (data or more)
    running,            \* ids of the acquired streams whose tracks are live
    acquired,           \* number of streams getUserMedia has returned
    facingOf,           \* facing mode each stream was requested with
    pc,                 \* await at which startCamera is suspended
    call,               \* what the startCamera call in progress has done
    initPending,        \* initialize() effects of VirtualTryOn3D in flight
    frame,              \* what the last iteration of the detect loop did
    \* ---- TryOnDialog and the ErrorBoundary of Lazy3DTryOn
    open,               \* React.useState(false)
    overlayImageUrl,    \* prop
    model3dUrl,         \* prop
    model3dCalibration, \* prop
    TryOn3D,            \* dynamic(() => import('./3d-virtual-try-on')) state
    hasError,           \* state of the error boundary that is mounted
    \* ---- ClientOnly3DPreview
    isClient,           \* useState(false)
    hasWebGL,           \* useState(false)
    Model3DPreview,     \* useState<React.ComponentType | null>(null)
    importPending,      \* module whose dynamic import() is in flight
    \* ---- FaceTracking3DViewer (MediaPipe) and Simple3DViewer
    isLoading,          \* useState(true)
    isCameraActive,     \* useState(false)
    modelUrl,           \* prop
    loadsPending,       \* GLTFLoader.load calls in flight
    timerPending,       \* the 800 ms timer of the auto-start effect is set
    gumPending,         \* startCamera calls awaiting getUserMedia
    playPending,        \* streams whose startCamera call awaits video.play()
    sceneCleanup,       \* the scene effect has returned a cleanup to run
    \* ---- Basic3DPreview, Simple3DPreview, Model3DPreview (calibration)
    localCalibration,   \* the seven useState values localScale .. localRotationZ
    onCalibrationChange,\* prop: the callback is given
    reported,           \* arguments onCalibrationChange was last called with
    \* ---- uploadRouter
    request,            \* the upload request last handled
    response,           \* what the route answered to it
    \* ---- detectAndRender loop of FaceTracking3DViewer
    modelRef,           \* modelRef.current is set
    smooth,             \* smoothPos, smoothRot and smoothScale refs
    target,             \* targets of the last frame that had a face
    lm,                 \* the last run of detectAndRender found a face
    loopRefs            \* video, landmarker, scene, renderer, camera refs are set

tryOnVars == <<isStarting, isFrontCamera, faceData, isLowPerformance,
               landmarkerRef, detectorRef, rafRef, frameSkip, streamRef,
               srcObject, readyState, running, acquired, facingOf, pc, call,
               initPending, frame>>

dialogVars == <<open, overlayImageUrl, model3dUrl, model3dCalibration, TryOn3D>>

previewVars == <<isClient, hasWebGL, Model3DPreview, importPending>>

viewerVars == <<isLoading, isCameraActive, modelUrl, loadsPending,
                timerPending, gumPending, playPending, sceneCleanup>>

calibrationVars == <<localCalibration, onCalibrationChange, reported>>

uploadVars == <<request, response>>

smoothVars == <<modelRef, smooth, target, lm, loopRefs>>

vars == <<component, op, error, hasError, tryOnVars, dialogVars, previewVars,
          viewerVars, calibrationVars, uploadVars, smoothVars>>

\* ------------------------------------------------------------------ bounds
MaxStreams == 3     \* camera streams acquired in one behaviour
MaxPending == 2     \* async calls of one kind in flight in a viewer
MaxUlp == 6         \* width of the range of numbers the smoothing is run on

\* ------------------------------------------------------------- JS values
null == "null"
undefined == "undefined"

\* JavaScript truthiness of the values the props and states take here.
Truthy(v) == v \notin {null, undefined, ""}

\* a && b
And(a, b) == IF Truthy(a) THEN b ELSE a

\* ------------------------------------------------------- error messages
MsgCamera == "Failed to access camera"
MsgFaceInit == "Failed to initialize face detection"
MsgModel == "Failed to load 3D model"

TryOnComponents == {"VirtualTryOn3D", "Simple3DTryOn"}

StreamIds == 1 .. MaxStreams

NoCall == [facing |-> "none", stream |-> 0, loop |-> FALSE]

\* ===================================================== camera try-on
TryOnIdle ==
    /\ isStarting = FALSE
    /\ isFrontCamera = TRUE
    /\ faceData = null
    /\ isLowPerformance = FALSE
    /\ landmarkerRef = FALSE
    /\ detectorRef = FALSE
    /\ rafRef = FALSE
    /\ frameSkip = 0
    /\ streamRef = 0
    /\ srcObject = 0
    /\ readyState = 0
    /\ running = {}
    /\ acquired = 0
    /\ facingOf = [s \in StreamIds |-> "none"]
    /\ pc = "idle"
    /\ call = NoCall
    /\ initPending = 0
    /\ frame = "none"

\* Variables of the components that are not mounted keep their first value.
DialogIdle ==
    /\ open = FALSE
    /\ overlayImageUrl = undefined
    /\ model3dUrl = undefined
    /\ model3dCalibration = undefined
    /\ TryOn3D = "loading"

PreviewIdle ==
    /\ isClient = FALSE
    /\ hasWebGL = FALSE
    /\ Model3DPreview = null
    /\ importPending = null

ViewerIdle ==
    /\ isLoading = TRUE
    /\ isCameraActive = FALSE
    /\ modelUrl = undefined
    /\ loadsPending = 0
    /\ timerPending = FALSE
    /\ gumPending = 0
    /\ playPending = {}
    /\ sceneCleanup = FALSE

\* Default values of the calibration props: scale = 1, the offsets and the
\* rotations 0.
DefaultCalibration ==
    [scale |-> 1, offsetX |-> 0, offsetY |-> 0, offsetZ |-> 0,
     rotationX |-> 0, rotationY |-> 0, rotationZ |-> 0]

CalibrationIdle ==
    /\ localCalibration = DefaultCalibration
    /\ onCalibrationChange = FALSE
    /\ reported = << >>

UploadIdle ==
    /\ request = << >>
    /\ response = "none"

SmoothIdle ==
    /\ modelRef = FALSE
    /\ smooth = << >>
    /\ target = << >>
    /\ lm = FALSE
    /\ loopRefs = FALSE

\* State after the first render and the mount effects.  VirtualTryOn3D runs
\* detectPerformance, and its initialize effect once per value isLowPerformance
\* has taken (deps [isLowPerformance]): once, or twice on a low-end device.
InitTryOn ==
    /\ component \in TryOnComponents
    /\ op = "mount"
    /\ error = null
    /\ isStarting = FALSE
    /\ isFrontCamera = TRUE
    /\ faceData = null
    /\ isLowPerformance \in (IF component = "VirtualTryOn3D" THEN BOOLEAN ELSE {FALSE})
    /\ landmarkerRef = FALSE
    /\ detectorRef = FALSE
    /\ rafRef = FALSE
    /\ frameSkip = 0
    /\ streamRef = 0
    /\ srcObject = 0
    /\ readyState = 0
    /\ running = {}
    /\ acquired = 0
    /\ facingOf = [s \in StreamIds |-> "none"]
    /\ pc = "idle"
    /\ call = NoCall
    /\ initPending = (IF component = "VirtualTryOn3D"
                      THEN (IF isLowPerformance THEN 2 ELSE 1) ELSE 0)
    /\ frame = "none"
    /\ hasError = FALSE
    /\ DialogIdle
    /\ PreviewIdle
    /\ ViewerIdle
    /\ CalibrationIdle
    /\ UploadIdle
    /\ SmoothIdle

\* facingMode: isFrontCamera ? 'user' : 'environment'
FacingMode(front) == IF front THEN "user" ELSE "environment"

\* catch block of ensureVisionInitialized: setError(...), then rethrow.
EnsureVisionCatch(e) == MsgFaceInit

\* catch block of startCamera: setError('Failed to access camera').
StartCameraCatch(e) == MsgCamera

\* Variant: isStarting is not reset.
StartCameraFinally_Missing(s) == s

\* finally block of startCamera: setIsStarting(false).
StartCameraFinally(s) == FALSE

\* startCamera up to its first await (click on the start button, which is
\* disabled while isStarting).
StartCamera ==
    /\ component \in TryOnComponents
    /\ ~isStarting
    /\ acquired < MaxStreams
    /\ isStarting' = TRUE
    /\ error' = null
    /\ call' = [facing |-> FacingMode(isFrontCamera), stream |-> 0, loop |-> FALSE]
    /\ pc' = IF component = "Simple3DTryOn" THEN "init" ELSE "gum"
    /\ op' = "StartCamera"
    /\ UNCHANGED <<calibrationVars, uploadVars, smoothVars>>
    /\ UNCHANGED <<hasError, dialogVars, previewVars, viewerVars>>
    /\ UNCHANGED <<component, isFrontCamera, faceData, isLowPerformance,
                   landmarkerRef, detectorRef, rafRef, frameSkip, streamRef,
                   srcObject, readyState, running, acquired, facingOf,
                   initPending, frame>>

\* ensureVisionInitialized resolves: landmarkerRef.current = landmarker.
\* detectorRef.current is assigned nowhere, so the early return of line 58
\* is never taken and every start creates the landmarker again.
EnsureVisionResolved ==
    /\ component = "Simple3DTryOn"
    /\ pc = "init"
    /\ landmarkerRef' = TRUE
    /\ pc' = "gum"
    /\ op' = "EnsureVisionResolved"
    /\ UNCHANGED <<calibrationVars, uploadVars, smoothVars>>
    /\ UNCHANGED <<hasError, dialogVars, previewVars, viewerVars>>
    /\ UNCHANGED <<component, error, isStarting, isFrontCamera, faceData,
                   isLowPerformance, detectorRef, rafRef, frameSkip,
                   streamRef, srcObject, readyState, running, acquired,
                   facingOf, call, initPending, frame>>

\* ensureVisionInitialized throws: its catch sets the error and rethrows,
\* the catch of startCamera sets the error again, finally runs.
EnsureVisionRejected ==
    /\ component = "Simple3DTryOn"
    /\ pc = "init"
    /\ error' = StartCameraCatch(EnsureVisionCatch(error))
    /\ isStarting' = StartCameraFinally(isStarting)
    /\ pc' = "idle"
    /\ op' = "EnsureVisionRejected"
    /\ UNCHANGED <<calibrationVars, uploadVars, smoothVars>>
    /\ UNCHANGED <<hasError, dialogVars, previewVars, viewerVars>>
    /\ UNCHANGED <<component, isFrontCamera, faceData, isLowPerformance,
                   landmarkerRef, detectorRef, rafRef, frameSkip, streamRef,
                   srcObject, readyState, running, acquired, facingOf, call,
                   initPending, frame>>

\* getUserMedia resolves: streamRef.current = stream; video.srcObject =
\* stream; startCamera then awaits 'loadedmetadata'.  The stream streamRef
\* held before is overwritten without being stopped.
GetUserMediaResolved ==
    /\ component \in TryOnComponents
    /\ pc = "gum"
    /\ LET s == acquired + 1 IN
        /\ acquired' = s
        /\ running' = running \cup {s}
        /\ facingOf' = [facingOf EXCEPT ![s] = call.facing]
        /\ streamRef' = s
        /\ srcObject' = s
        /\ call' = [call EXCEPT !.stream = s]
    /\ readyState' = 0
    /\ pc' = "meta"
    /\ op' = "GetUserMediaResolved"
    /\ UNCHANGED <<calibrationVars, uploadVars, smoothVars>>
    /\ UNCHANGED <<hasError, dialogVars, previewVars, viewerVars>>
    /\ UNCHANGED <<component, error, isStarting, isFrontCamera, faceData,
                   isLowPerformance, landmarkerRef, detectorRef, rafRef,
                   frameSkip, initPending, frame>>

\* getUserMedia rejects: catch, finally.
GetUserMediaRejected ==
    /\ component \in TryOnComponents
    /\ pc = "gum"
    /\ error' = StartCameraCatch(error)
    /\ isStarting' = StartCameraFinally(isStarting)
    /\ pc' = "idle"
    /\ op' = "GetUserMediaRejected"
    /\ UNCHANGED <<calibrationVars, uploadVars, smoothVars>>
    /\ UNCHANGED <<hasError, dialogVars, previewVars, viewerVars>>
    /\ UNCHANGED <<component, isFrontCamera, faceData, isLowPerformance,
                   landmarkerRef, detectorRef, rafRef, frameSkip, streamRef,
                   srcObject, readyState, running, acquired, facingOf, call,
                   initPending, frame>>

\* 'loadedmetadata' fires on the video: the promise of startCamera resolves
\* and video.play() is called.  It never fires once srcObject is null again.
LoadedMetadata ==
    /\ component \in TryOnComponents
    /\ pc = "meta"
    /\ srcObject # 0
    /\ readyState' = 1
    /\ pc' = "play"
    /\ op' = "LoadedMetadata"
    /\ UNCHANGED <<calibrationVars, uploadVars, smoothVars>>
    /\ UNCHANGED <<hasError, dialogVars, previewVars, viewerVars>>
    /\ UNCHANGED <<component, error, isStarting, isFrontCamera, faceData,
                   isLowPerformance, landmarkerRef, detectorRef, rafRef,
                   frameSkip, streamRef, srcObject, running, acquired,
                   facingOf, call, initPending, frame>>

\* The video element has data for the current frame (readyState >= 2).
CanPlay ==
    /\ component \in TryOnComponents
    /\ srcObject # 0
    /\ readyState = 1
    /\ readyState' = 2
    /\ op' = "CanPlay"
    /\ UNCHANGED <<calibrationVars, uploadVars, smoothVars>>
    /\ UNCHANGED <<hasError, dialogVars, previewVars, viewerVars>>
    /\ UNCHANGED <<component, error, isStarting, isFrontCamera, faceData,
                   isLowPerformance, landmarkerRef, detectorRef, rafRef,
                   frameSkip, streamRef, srcObject, running, acquired,
                   facingOf, pc, call, initPending, frame>>

\* startDetectLoop: cancel the pending frame, request a new one.
StartDetectLoop(raf) == TRUE

\* video.play() resolves: startDetectLoop(), finally.
PlayResolved ==
    /\ component \in TryOnComponents
    /\ pc = "play"
    /\ srcObject # 0
    /\ readyState = 2
    /\ rafRef' = StartDetectLoop(rafRef)
    /\ call' = [call EXCEPT !.loop = TRUE]
    /\ isStarting' = StartCameraFinally(isStarting)
    /\ pc' = "idle"
    /\ op' = "PlayResolved"
    /\ UNCHANGED <<calibrationVars, uploadVars, smoothVars>>
    /\ UNCHANGED <<hasError, dialogVars, previewVars, viewerVars>>
    /\ UNCHANGED <<component, error, isFrontCamera, faceData,
                   isLowPerformance, landmarkerRef, detectorRef, frameSkip,
                   streamRef, srcObject, readyState, running, acquired,
                   facingOf, initPending, frame>>

\* video.play() rejects (aborted by a stop, not allowed): catch, finally.
PlayRejected ==
    /\ component \in TryOnComponents
    /\ pc = "play"
    /\ error' = StartCameraCatch(error)
    /\ isStarting' = StartCameraFinally(isStarting)
    /\ pc' = "idle"
    /\ op' = "PlayRejected"
    /\ UNCHANGED <<calibrationVars, uploadVars, smoothVars>>
    /\ UNCHANGED <<hasError, dialogVars, previewVars, viewerVars>>
    /\ UNCHANGED <<component, isFrontCamera, faceData, isLowPerformance,
                   landmarkerRef, detectorRef, rafRef, frameSkip, streamRef,
                   srcObject, readyState, running, acquired, facingOf, call,
                   initPending, frame>>

\* The tracks stopCamera stops: those of streamRef.current, if any.
StoppedTracks(ref) == IF ref # 0 THEN {ref} ELSE {}

\* Body of stopCamera, shared by the stop and the switch-camera control.
StopCameraBody ==
    /\ rafRef' = FALSE
    /\ running' = running \ StoppedTracks(streamRef)
    /\ streamRef' = 0
    /\ srcObject' = 0
    /\ readyState' = 0

StopCamera ==
    /\ component \in TryOnComponents
    /\ StopCameraBody
    /\ op' = "StopCamera"
    /\ UNCHANGED <<calibrationVars, uploadVars, smoothVars>>
    /\ UNCHANGED <<hasError, dialogVars, previewVars, viewerVars>>
    /\ UNCHANGED <<component, error, isStarting, isFrontCamera, faceData,
                   isLowPerformance, landmarkerRef, detectorRef, frameSkip,
                   acquired, facingOf, pc, call, initPending, frame>>

\* toggleCamera: stopCamera(); setIsFrontCamera(!isFrontCamera).
ToggleCamera ==
    /\ component \in TryOnComponents
    /\ StopCameraBody
    /\ isFrontCamera' = ~isFrontCamera
    /\ op' = "ToggleCamera"
    /\ UNCHANGED <<calibrationVars, uploadVars, smoothVars>>
    /\ UNCHANGED <<hasError, dialogVars, previewVars, viewerVars>>
    /\ UNCHANGED <<component, error, isStarting, faceData, isLowPerformance,
                   landmarkerRef, detectorRef, frameSkip, acquired, facingOf,
                   pc, call, initPending, frame>>

\* The guard at the head of loop(): true when the iteration goes on to the
\* readyState test, false when it only requests the next frame.
LoopRefsReady ==
    IF component = "Simple3DTryOn"
    THEN landmarkerRef /\ detectorRef
    ELSE landmarkerRef

\* One iteration of loop(), run by the pending animation frame.  `elapsed`
\* is whether a frame interval has passed (low-performance limiter),
\* `result` what detectForVideo does with the frame.  detectForVideo of the
\* landmarker returns synchronously, so the iteration is one step.
DetectLoop ==
    /\ component \in TryOnComponents
    /\ rafRef
    /\ \E elapsed \in BOOLEAN, result \in {"face", "noface", "throw"} :
        LET limited == component = "VirtualTryOn3D" /\ isLowPerformance
            counted == LoopRefsReady /\ readyState >= 2 /\ limited /\ elapsed
            skip == \/ ~LoopRefsReady
                    \/ readyState < 2
                    \/ (limited /\ ~elapsed)
                    \/ (limited /\ (frameSkip + 1) % 2 = 0)
        IN  /\ frameSkip' = IF counted THEN (frameSkip + 1) % 2 ELSE frameSkip
            /\ frame' = IF skip THEN "skipped" ELSE result
            /\ faceData' = IF skip \/ result = "throw" THEN faceData
                           ELSE IF result = "face" THEN "face" ELSE null
    /\ rafRef' = TRUE
    /\ op' = "DetectLoop"
    /\ UNCHANGED <<calibrationVars, uploadVars, smoothVars>>
    /\ UNCHANGED <<hasError, dialogVars, previewVars, viewerVars>>
    /\ UNCHANGED <<component, error, isStarting, isFrontCamera,
                   isLowPerformance, landmarkerRef, detectorRef, streamRef,
                   srcObject, readyState, running, acquired, facingOf, pc,
                   call, initPending>>

\* initialize() of VirtualTryOn3D resolves: landmarkerRef.current = landmarker.
InitializeResolved ==
    /\ component = "VirtualTryOn3D"
    /\ initPending > 0
    /\ initPending' = initPending - 1
    /\ landmarkerRef' = TRUE
    /\ op' = "InitializeResolved"
    /\ UNCHANGED <<calibrationVars, uploadVars, smoothVars>>
    /\ UNCHANGED <<hasError, dialogVars, previewVars, viewerVars>>
    /\ UNCHANGED <<component, error, isStarting, isFrontCamera, faceData,
                   isLowPerformance, detectorRef, rafRef, frameSkip,
                   streamRef, srcObject, readyState, running, acquired,
                   facingOf, pc, call, frame>>

\* initialize() of VirtualTryOn3D fails: setError(...).
InitializeRejected ==
    /\ component = "VirtualTryOn3D"
    /\ initPending > 0
    /\ initPending' = initPending - 1
    /\ error' = MsgFaceInit
    /\ op' = "InitializeRejected"
    /\ UNCHANGED <<calibrationVars, uploadVars, smoothVars>>
    /\ UNCHANGED <<hasError, dialogVars, previewVars, viewerVars>>
    /\ UNCHANGED <<component, isStarting, isFrontCamera, faceData,
                   isLowPerformance, landmarkerRef, detectorRef, rafRef,
                   frameSkip, streamRef, srcObject, readyState, running,
                   acquired, facingOf, pc, call, frame>>

NextTryOn ==
    \/ StartCamera
    \/ EnsureVisionResolved
    \/ EnsureVisionRejected
    \/ GetUserMediaResolved
    \/ GetUserMediaRejected
    \/ LoadedMetadata
    \/ CanPlay
    \/ PlayResolved
    \/ PlayRejected
    \/ StopCamera
    \/ ToggleCamera
    \/ DetectLoop
    \/ InitializeResolved
    \/ InitializeRejected

\* ======================================================= TryOnDialog
\* Values the optional string props take: absent, empty, a URL.
UrlValues == {undefined, "", "/url"}

\* model3dCalibration is an object (always truthy) or absent.
CalibrationValues == {undefined, "calibration"}

\* Button and title texts of lines 40 and 46.
Label3D == "try-on-3d"
Label2D == "try-on-virtual"

InitDialog ==
    /\ component = "TryOnDialog"
    /\ op = "mount"
    /\ error = null
    /\ hasError = FALSE
    /\ open = FALSE
    /\ overlayImageUrl \in UrlValues
    /\ model3dUrl \in UrlValues
    /\ model3dCalibration \in CalibrationValues
    /\ TryOn3D = "loading"
    /\ TryOnIdle
    /\ PreviewIdle
    /\ ViewerIdle
    /\ CalibrationIdle
    /\ UploadIdle
    /\ SmoothIdle

\* Variant: the URL is not tested.
Has3DModel_CalibrationOnly(url, calibration) == calibration

\* const has3DModel = model3dUrl && model3dCalibration
Has3DModel(url, calibration) == And(url, calibration)

\* const has2DOverlay = overlayImageUrl
Has2DOverlay(overlay) == overlay

\* Text of the trigger button.
ButtonLabel(has3D) == IF Truthy(has3D) THEN Label3D ELSE Label2D

\* Variant: the 2D overlay is tested before the 3D model.
DialogContent_OverlayFirst(isOpen, has3D, has2D) ==
    IF ~isOpen THEN "none"
    ELSE IF Truthy(has2D) THEN "VirtualTryOn"
    ELSE IF Truthy(has3D) THEN "Lazy3DTryOn"
    ELSE "message"

\* What is mounted inside DialogContent (lines 50-66).
DialogContent(isOpen, has3D, has2D) ==
    IF ~isOpen THEN "none"
    ELSE IF Truthy(has3D) THEN "Lazy3DTryOn"
    ELSE IF Truthy(has2D) THEN "VirtualTryOn"
    ELSE "message"

Label == ButtonLabel(Has3DModel(model3dUrl, model3dCalibration))

Content ==
    DialogContent(open, Has3DModel(model3dUrl, model3dCalibration),
                  Has2DOverlay(overlayImageUrl))

\* Variant: the error leaves the state as it is.
GetDerivedStateFromError_Keep(state) == state

\* static getDerivedStateFromError() { return { hasError: true } }
GetDerivedStateFromError(state) == TRUE

\* render() of both error boundaries.
BoundaryRender(state) == IF state THEN "fallback" ELSE "children"

\* The boundary instance lives as long as Lazy3DTryOn stays mounted; a new
\* instance starts from the constructor's { hasError: false }.
DialogBoundaryAfter(before, after) ==
    IF before = "Lazy3DTryOn" /\ after = "Lazy3DTryOn" THEN hasError ELSE FALSE

\* onOpenChange={setOpen}: the trigger, the close button, escape.
OnOpenChange ==
    /\ component = "TryOnDialog"
    /\ \E o \in BOOLEAN :
        /\ open' = o
        /\ hasError' = DialogBoundaryAfter(Content,
               DialogContent(o, Has3DModel(model3dUrl, model3dCalibration),
                             Has2DOverlay(overlayImageUrl)))
    /\ op' = "OnOpenChange"
    /\ UNCHANGED <<calibrationVars, uploadVars, smoothVars>>
    /\ UNCHANGED <<component, error, overlayImageUrl, model3dUrl,
                   model3dCalibration, TryOn3D, tryOnVars, previewVars, viewerVars>>

\* The parent renders the dialog again with other props.
DialogProps ==
    /\ component = "TryOnDialog"
    /\ \E o \in UrlValues, m \in UrlValues, c \in CalibrationValues :
        /\ <<o, m, c>> # <<overlayImageUrl, model3dUrl, model3dCalibration>>
        /\ overlayImageUrl' = o
        /\ model3dUrl' = m
        /\ model3dCalibration' = c
        /\ hasError' = DialogBoundaryAfter(Content,
               DialogContent(open, Has3DModel(m, c), Has2DOverlay(o)))
    /\ op' = "DialogProps"
    /\ UNCHANGED <<calibrationVars, uploadVars, smoothVars>>
    /\ UNCHANGED <<component, error, open, TryOn3D, tryOnVars, previewVars, viewerVars>>

\* The dynamic import of TryOn3D resolves; the loading placeholder goes.
TryOn3DLoaded ==
    /\ component = "TryOnDialog"
    /\ Content = "Lazy3DTryOn"
    /\ TryOn3D = "loading"
    /\ TryOn3D' = "loaded"
    /\ op' = "TryOn3DLoaded"
    /\ UNCHANGED <<calibrationVars, uploadVars, smoothVars>>
    /\ UNCHANGED <<component, error, hasError, open, overlayImageUrl,
                   model3dUrl, model3dCalibration, tryOnVars, previewVars, viewerVars>>

\* A descendant of the ErrorBoundary throws while rendering.
DialogChildThrows ==
    /\ component = "TryOnDialog"
    /\ Content = "Lazy3DTryOn"
    /\ BoundaryRender(hasError) = "children"
    /\ hasError' = GetDerivedStateFromError(hasError)
    /\ op' = "ChildThrows"
    /\ UNCHANGED <<calibrationVars, uploadVars, smoothVars>>
    /\ UNCHANGED <<component, error, dialogVars, tryOnVars, previewVars, viewerVars>>

\* onClose of the ErrorFallback button: setOpen(false).
FallbackClose ==
    /\ component = "TryOnDialog"
    /\ Content = "Lazy3DTryOn"
    /\ BoundaryRender(hasError) = "fallback"
    /\ open' = FALSE
    /\ hasError' = DialogBoundaryAfter(Content, "none")
    /\ op' = "FallbackClose"
    /\ UNCHANGED <<calibrationVars, uploadVars, smoothVars>>
    /\ UNCHANGED <<component, error, overlayImageUrl, model3dUrl,
                   model3dCalibration, TryOn3D, tryOnVars, previewVars, viewerVars>>

NextDialog ==
    \/ OnOpenChange
    \/ DialogProps
    \/ TryOn3DLoaded
    \/ DialogChildThrows
    \/ FallbackClose

\* ================================================ ClientOnly3DPreview
\* State of the first render, before the mount effect has run.
InitPreview ==
    /\ component = "ClientOnly3DPreview"
    /\ op = "mount"
    /\ error = null
    /\ hasError = FALSE
    /\ isClient = FALSE
    /\ hasWebGL = FALSE
    /\ Model3DPreview = null
    /\ importPending = null
    /\ TryOnIdle
    /\ DialogIdle
    /\ ViewerIdle
    /\ CalibrationIdle
    /\ UploadIdle
    /\ SmoothIdle

\* The module the mount effect imports (lines 351-366).
FirstImport(gl) == IF gl THEN "3d-model-preview" ELSE "simple-3d-fallback"

\* The mount effect; gl is whether the canvas gives a WebGL context.
PreviewMountEffect ==
    /\ component = "ClientOnly3DPreview"
    /\ ~isClient
    /\ \E gl \in BOOLEAN :
        /\ hasWebGL' = gl
        /\ importPending' = FirstImport(gl)
    /\ isClient' = TRUE
    /\ op' = "PreviewMountEffect"
    /\ UNCHANGED <<calibrationVars, uploadVars, smoothVars>>
    /\ UNCHANGED <<component, error, hasError, Model3DPreview, tryOnVars,
                   dialogVars, viewerVars>>

\* import(...).then: setModel3DPreview(() => module.default)
ImportResolved ==
    /\ component = "ClientOnly3DPreview"
    /\ importPending # null
    /\ Model3DPreview' = importPending
    /\ importPending' = null
    /\ op' = "ImportResolved"
    /\ UNCHANGED <<calibrationVars, uploadVars, smoothVars>>
    /\ UNCHANGED <<component, error, hasError, isClient, hasWebGL,
                   tryOnVars, dialogVars, viewerVars>>

\* The import rejects: the catch of the 3D preview imports the fallback;
\* a rejection of the fallback import is not handled.
ImportRejected ==
    /\ component = "ClientOnly3DPreview"
    /\ importPending # null
    /\ importPending' = IF importPending = "3d-model-preview"
                        THEN "simple-3d-fallback" ELSE null
    /\ op' = "ImportRejected"
    /\ UNCHANGED <<calibrationVars, uploadVars, smoothVars>>
    /\ UNCHANGED <<component, error, hasError, isClient, hasWebGL,
                   Model3DPreview, tryOnVars, dialogVars, viewerVars>>

\* What ClientOnly3DPreview renders (lines 371-424).
ClientOnlyRender(client, webgl, preview) ==
    IF ~client THEN "loading"
    ELSE IF ~webgl THEN "webgl-unsupported"
    ELSE IF preview = null THEN "loading-components"
    ELSE preview

PreviewRendered == ClientOnlyRender(isClient, hasWebGL, Model3DPreview)

\* A descendant of the ThreeJSErrorBoundary of Model3DPreview throws.
PreviewChildThrows ==
    /\ component = "ClientOnly3DPreview"
    /\ PreviewRendered = "3d-model-preview"
    /\ BoundaryRender(hasError) = "children"
    /\ hasError' = GetDerivedStateFromError(hasError)
    /\ op' = "ChildThrows"
    /\ UNCHANGED <<calibrationVars, uploadVars, smoothVars>>
    /\ UNCHANGED <<component, error, previewVars, tryOnVars, dialogVars, viewerVars>>

\* The parent renders the preview again (new props); no state changes.
PreviewRerender ==
    /\ component = "ClientOnly3DPreview"
    /\ isClient
    /\ op' = "PreviewRerender"
    /\ UNCHANGED <<calibrationVars, uploadVars, smoothVars>>
    /\ UNCHANGED <<component, error, hasError, previewVars, tryOnVars,
                   dialogVars, viewerVars>>

NextPreview ==
    \/ PreviewMountEffect
    \/ ImportResolved
    \/ ImportRejected
    \/ PreviewChildThrows
    \/ PreviewRerender

\* ============================ FaceTracking3DViewer and Simple3DViewer
ViewerComponents == {"FaceTracking3DViewer", "Simple3DViewer"}

ModelUrls == {undefined, "/a.glb", "/b.glb"}

\* The auto-start effect of FaceTracking3DViewer (deps [isLoading,
\* startCamera]): when it runs again it clears its timer and, unless
\* isLoading, sets a new one.
AutoStartTimer(loadingBefore, loadingAfter, startCameraChanged, timer) ==
    IF component = "FaceTracking3DViewer"
       /\ (loadingBefore # loadingAfter \/ startCameraChanged)
    THEN ~loadingAfter
    ELSE timer

\* State after the first render and the mount effects: the scene effect has
\* called load3DModel (and initializeFaceDetection in FaceTracking3DViewer).
InitViewer ==
    /\ component \in ViewerComponents
    /\ op = "mount"
    /\ error = null
    /\ hasError = FALSE
    /\ modelUrl \in ModelUrls
    /\ isLoading = Truthy(modelUrl)
    /\ loadsPending = (IF Truthy(modelUrl) THEN 1 ELSE 0)
    /\ isCameraActive = FALSE
    /\ timerPending = AutoStartTimer(TRUE, isLoading, FALSE, FALSE)
    /\ gumPending = 0
    /\ playPending = {}
    /\ sceneCleanup = TRUE
    /\ isStarting = FALSE
    /\ isFrontCamera = TRUE
    /\ faceData = null
    /\ isLowPerformance = FALSE
    /\ landmarkerRef = FALSE
    /\ detectorRef = FALSE
    /\ rafRef = FALSE
    /\ frameSkip = 0
    /\ streamRef = 0
    /\ srcObject = 0
    /\ readyState = 0
    /\ running = {}
    /\ acquired = 0
    /\ facingOf = [s \in StreamIds |-> "none"]
    /\ pc = "idle"
    /\ call = NoCall
    /\ initPending = (IF component = "FaceTracking3DViewer" THEN 1 ELSE 0)
    /\ frame = "none"
    /\ DialogIdle
    /\ PreviewIdle
    /\ CalibrationIdle
    /\ UploadIdle
    /\ SmoothIdle

\* Variant: the error callback only ends the loading state.
LoadErrorMessage_Unset(e) == e

\* Error callback of loader.load: setError('Failed to load 3D model').
LoadErrorMessage(e) == MsgModel

\* What a viewer renders: the error view (the early return on error), or
\* the canvas, under the loading spinner while isLoading.
ViewerRender(e, loading) ==
    IF e # null THEN "error"
    ELSE IF loading THEN "canvas+spinner"
    ELSE "canvas"

ViewerView == ViewerRender(error, isLoading)

\* Success callback of loader.load: setIsLoading(false).
ModelLoaded ==
    /\ component \in ViewerComponents
    /\ loadsPending > 0
    /\ loadsPending' = loadsPending - 1
    /\ isLoading' = FALSE
    /\ timerPending' = AutoStartTimer(isLoading, FALSE, FALSE, timerPending)
    /\ op' = "ModelLoaded"
    /\ UNCHANGED <<calibrationVars, uploadVars, smoothVars>>
    /\ UNCHANGED <<component, error, hasError, isCameraActive, modelUrl,
                   gumPending, playPending, sceneCleanup, tryOnVars,
                   dialogVars, previewVars>>

\* Error callback of loader.load: setError(...); setIsLoading(false).
ModelLoadError ==
    /\ component \in ViewerComponents
    /\ loadsPending > 0
    /\ loadsPending' = loadsPending - 1
    /\ error' = LoadErrorMessage(error)
    /\ isLoading' = FALSE
    /\ timerPending' = AutoStartTimer(isLoading, FALSE, FALSE, timerPending)
    /\ op' = "ModelLoadError"
    /\ UNCHANGED <<calibrationVars, uploadVars, smoothVars>>
    /\ UNCHANGED <<component, hasError, isCameraActive, modelUrl,
                   gumPending, playPending, sceneCleanup, tryOnVars,
                   dialogVars, previewVars>>

\* The parent renders the viewer with other props.  `change` is what
\* differs: the model URL, another dependency of the scene effect (scale,
\* offsetZ in FaceTracking3DViewer; any calibration prop in Simple3DViewer),
\* or only dependencies of startCamera.  The scene effect runs again: its
\* cleanup (stopCamera in FaceTracking3DViewer), then, if the canvas is
\* mounted, a new load3DModel and initializeFaceDetection.
ViewerProps ==
    /\ component \in ViewerComponents
    /\ loadsPending < MaxPending
    /\ initPending < MaxPending
    /\ \E m \in ModelUrls, change \in {"modelUrl", "scale", "other"} :
        LET face == component = "FaceTracking3DViewer"
            rerun == change # "other"
            stop == face /\ rerun /\ sceneCleanup
            canvas == error = null
            load == rerun /\ canvas
            active == IF stop THEN FALSE ELSE isCameraActive
            loading == IF load /\ ~Truthy(m) THEN FALSE ELSE isLoading
        IN  /\ (change = "modelUrl") <=> (m # modelUrl)
            /\ change = "other" => face
            /\ modelUrl' = m
            /\ running' = IF stop THEN running \ StoppedTracks(streamRef)
                          ELSE running
            /\ isCameraActive' = active
            /\ sceneCleanup' = IF rerun THEN canvas ELSE sceneCleanup
            /\ loadsPending' = IF load /\ Truthy(m) THEN loadsPending + 1
                               ELSE loadsPending
            /\ isLoading' = loading
            /\ initPending' = IF load /\ face THEN initPending + 1
                              ELSE initPending
            /\ timerPending' = AutoStartTimer(isLoading, loading,
                   change # "modelUrl" \/ active # isCameraActive,
                   timerPending)
    /\ op' = "ViewerProps"
    /\ UNCHANGED <<calibrationVars, uploadVars, smoothVars>>
    /\ UNCHANGED <<component, error, hasError, gumPending, playPending,
                   isStarting, isFrontCamera, faceData, isLowPerformance,
                   landmarkerRef, detectorRef, rafRef, frameSkip, streamRef,
                   srcObject, readyState, acquired, facingOf, pc, call,
                   frame, dialogVars, previewVars>>

\* initializeFaceDetection settles: the landmarker is stored, or the
\* failure is only logged.
FaceDetectionSettled ==
    /\ component = "FaceTracking3DViewer"
    /\ initPending > 0
    /\ initPending' = initPending - 1
    /\ \E ok \in BOOLEAN : landmarkerRef' = (landmarkerRef \/ ok)
    /\ op' = "FaceDetectionSettled"
    /\ UNCHANGED <<calibrationVars, uploadVars, smoothVars>>
    /\ UNCHANGED <<component, error, hasError, isStarting, isFrontCamera,
                   faceData, isLowPerformance, detectorRef, rafRef,
                   frameSkip, streamRef, srcObject, readyState, running,
                   acquired, facingOf, pc, call, frame, dialogVars,
                   previewVars, viewerVars>>

\* The 800 ms timer fires: startCamera() up to its await of getUserMedia.
\* It returns at once when the video element is not mounted (error view).
AutoStartCamera ==
    /\ component = "FaceTracking3DViewer"
    /\ timerPending
    /\ acquired + gumPending < MaxStreams
    /\ gumPending < MaxPending
    /\ timerPending' = FALSE
    /\ gumPending' = IF error = null THEN gumPending + 1 ELSE gumPending
    /\ op' = "AutoStartCamera"
    /\ UNCHANGED <<calibrationVars, uploadVars, smoothVars>>
    /\ UNCHANGED <<component, error, hasError, isLoading, isCameraActive,
                   modelUrl, loadsPending, playPending, sceneCleanup,
                   tryOnVars, dialogVars, previewVars>>

\* getUserMedia resolves in startCamera of FaceTracking3DViewer:
\* video.srcObject = stream, then await video.play().  With the video
\* unmounted the assignment throws and the call ends there.
ViewerGetUserMediaResolved ==
    /\ component = "FaceTracking3DViewer"
    /\ gumPending > 0
    /\ gumPending' = gumPending - 1
    /\ LET s == acquired + 1 IN
        /\ acquired' = s
        /\ running' = running \cup {s}
        /\ srcObject' = IF error = null THEN s ELSE srcObject
        /\ playPending' = IF error = null THEN playPending \cup {s}
                          ELSE playPending
    /\ op' = "GetUserMediaResolved"
    /\ UNCHANGED <<calibrationVars, uploadVars, smoothVars>>
    /\ UNCHANGED <<component, error, hasError, isLoading, isCameraActive,
                   modelUrl, loadsPending, timerPending, sceneCleanup,
                   isStarting, isFrontCamera, faceData, isLowPerformance,
                   landmarkerRef, detectorRef, rafRef, frameSkip, streamRef,
                   readyState, facingOf, pc, call, initPending, frame,
                   dialogVars, previewVars>>

\* getUserMedia rejects in startCamera of FaceTracking3DViewer: there is no
\* try/catch, the promise startCamera returned rejects and nobody handles it.
ViewerGetUserMediaRejected ==
    /\ component = "FaceTracking3DViewer"
    /\ gumPending > 0
    /\ gumPending' = gumPending - 1
    /\ op' = "GetUserMediaRejected"
    /\ UNCHANGED <<calibrationVars, uploadVars, smoothVars>>
    /\ UNCHANGED <<component, error, hasError, isLoading, isCameraActive,
                   modelUrl, loadsPending, timerPending, playPending,
                   sceneCleanup, tryOnVars, dialogVars, previewVars>>

\* video.play() settles (its rejection is swallowed): streamRef.current =
\* stream; setIsCameraActive(true).
ViewerPlaySettled ==
    /\ component = "FaceTracking3DViewer"
    /\ \E s \in playPending :
        /\ playPending' = playPending \ {s}
        /\ streamRef' = s
    /\ isCameraActive' = TRUE
    /\ timerPending' = AutoStartTimer(isLoading, isLoading, ~isCameraActive,
                                      timerPending)
    /\ op' = "ViewerPlaySettled"
    /\ UNCHANGED <<calibrationVars, uploadVars, smoothVars>>
    /\ UNCHANGED <<component, error, hasError, isLoading, modelUrl,
                   loadsPending, gumPending, sceneCleanup, isStarting,
                   isFrontCamera, faceData, isLowPerformance, landmarkerRef,
                   detectorRef, rafRef, frameSkip, srcObject, readyState,
                   running, acquired, facingOf, pc, call, initPending, frame,
                   dialogVars, previewVars>>

NextViewer ==
    \/ ModelLoaded
    \/ ModelLoadError
    \/ ViewerProps
    \/ FaceDetectionSettled
    \/ AutoStartCamera
    \/ ViewerGetUserMediaResolved
    \/ ViewerGetUserMediaRejected
    \/ ViewerPlaySettled

\* ============== Basic3DPreview, Simple3DPreview, Model3DPreview
\* The three previews hold the calibration in seven useState values and have
\* the same sliders, resetCalibration and handleCalibrationChange.  The error
\* boundary Model3DPreview puts around its canvas is modelled with
\* ClientOnly3DPreview, which is where the store mounts it.
CalibrationPreviews == {"Basic3DPreview", "Simple3DPreview", "Model3DPreview"}

CalibrationFields ==
    {"scale", "offsetX", "offsetY", "offsetZ",
     "rotationX", "rotationY", "rotationZ"}

\* Values a slider can deliver, a few of each range: scale 0.1 .. 3 in steps
\* of 0.1, offsets -2 .. 2 in steps of 0.1, rotations -180 .. 180 in steps of 5.
ScaleValues == {1, 2, 3}
OffsetValues == {-2, 0}
RotationValues == {0, 180}

SliderValues(field) ==
    IF field = "scale" THEN ScaleValues
    ELSE IF field \in {"offsetX", "offsetY", "offsetZ"} THEN OffsetValues
    ELSE RotationValues

Calibrations ==
    [scale : ScaleValues, offsetX : OffsetValues, offsetY : OffsetValues,
     offsetZ : OffsetValues, rotationX : RotationValues,
     rotationY : RotationValues, rotationZ : RotationValues]

\* useState(scale) .. useState(rotationZ): the local values start as the
\* props and do not follow them afterwards.
InitCalibration ==
    /\ component \in CalibrationPreviews
    /\ op = "init"
    /\ error = null
    /\ hasError = FALSE
    /\ localCalibration \in Calibrations
    /\ onCalibrationChange \in BOOLEAN
    /\ reported = << >>
    /\ TryOnIdle
    /\ DialogIdle
    /\ PreviewIdle
    /\ ViewerIdle
    /\ UploadIdle
    /\ SmoothIdle

\* setLocalScale(value) .. setLocalRotationZ(value) of a slider.
SetLocal(local, field, value) == [local EXCEPT ![field] = value]

\* updatedValues of handleCalibrationChange: the local values of the render
\* the handler was created in, overridden by newValues.
HandleCalibrationChange_Stale(local, field, value) == local
\* {scale: localScale, ..., rotationZ: localRotationZ, ...newValues}
HandleCalibrationChange(local, field, value) ==
    [f \in CalibrationFields |-> IF f = field THEN value ELSE local[f]]

\* onValueChange of the slider of `field`.
SliderChange ==
    /\ component \in CalibrationPreviews
    /\ \E field \in CalibrationFields : \E value \in SliderValues(field) :
          /\ localCalibration' = SetLocal(localCalibration, field, value)
          /\ reported' =
                IF onCalibrationChange
                THEN <<HandleCalibrationChange(localCalibration, field, value)>>
                ELSE reported
    /\ op' = "SliderChange"
    /\ UNCHANGED <<component, error, hasError, onCalibrationChange, tryOnVars,
                   dialogVars, previewVars, viewerVars, uploadVars, smoothVars>>

\* The values resetCalibration gives the seven setters.
ResetLocal_ZeroScale ==
    [scale |-> 0, offsetX |-> 0, offsetY |-> 0, offsetZ |-> 0,
     rotationX |-> 0, rotationY |-> 0, rotationZ |-> 0]
\* setLocalScale(1); setLocalOffsetX(0); ... setLocalRotationZ(0)
ResetLocal ==
    [scale |-> 1, offsetX |-> 0, offsetY |-> 0, offsetZ |-> 0,
     rotationX |-> 0, rotationY |-> 0, rotationZ |-> 0]

\* The object resetCalibration passes to onCalibrationChange.
ResetReport ==
    [scale |-> 1, offsetX |-> 0, offsetY |-> 0, offsetZ |-> 0,
     rotationX |-> 0, rotationY |-> 0, rotationZ |-> 0]

\* onClick of the reset button.
ResetCalibration ==
    /\ component \in CalibrationPreviews
    /\ localCalibration' = ResetLocal
    /\ reported' = IF onCalibrationChange THEN <<ResetReport>> ELSE reported
    /\ op' = "ResetCalibration"
    /\ UNCHANGED <<component, error, hasError, onCalibrationChange, tryOnVars,
                   dialogVars, previewVars, viewerVars, uploadVars, smoothVars>>

NextCalibration ==
    \/ SliderChange
    \/ ResetCalibration

\* ===================================================== ourFileRouter
\* The two upload routes.  A route is built by f(config) of UploadThing, which
\* admits a file when one key of the config matches its type and its size is
\* within the maxFileSize of that key; the middleware then needs a session.
\* Sizes are in MB.
Routes == {"imageUploader", "model3dUploader"}

ImageMaxFileSize == 4
Model3dMaxFileSize == 50

\* MIME types of the files sent, and the sizes: around each limit.
FileTypes ==
    {"image/png", "image/jpeg", "model/gltf-binary", "model/gltf+json",
     "model/obj", "application/octet-stream"}
FileSizes ==
    {1, ImageMaxFileSize, ImageMaxFileSize + 1,
     Model3dMaxFileSize, Model3dMaxFileSize + 1}

\* The config keys are MIME types or the type groups image and blob.
FileGroup(type) ==
    IF type \in {"image/png", "image/jpeg"} THEN "image" ELSE "blob"

\* The argument of f for each route.
RouteConfig_Blob(route) ==
    IF route = "imageUploader"
    THEN {[key |-> "image", maxFileSize |-> ImageMaxFileSize]}
    ELSE {[key |-> "blob", maxFileSize |-> Model3dMaxFileSize]}
\* f({ image: ... }) and f({ 'model/gltf-binary': ..., 'model/gltf+json': ... })
RouteConfig(route) ==
    IF route = "imageUploader"
    THEN {[key |-> "image", maxFileSize |-> ImageMaxFileSize]}
    ELSE {[key |-> "model/gltf-binary", maxFileSize |-> Model3dMaxFileSize],
          [key |-> "model/gltf+json", maxFileSize |-> Model3dMaxFileSize]}

FileAllowed(route, type, size) ==
    \E c \in RouteConfig(route) :
        /\ c.key \in {type, FileGroup(type)}
        /\ size <= c.maxFileSize

\* middleware: if (!session) throw new UploadThingError('Unauthorized')
Middleware(session) == IF session THEN "ok" ELSE "Unauthorized"

InitUpload ==
    /\ component = "ourFileRouter"
    /\ op = "init"
    /\ error = null
    /\ hasError = FALSE
    /\ request = << >>
    /\ response = "none"
    /\ TryOnIdle
    /\ DialogIdle
    /\ PreviewIdle
    /\ ViewerIdle
    /\ CalibrationIdle
    /\ SmoothIdle

\* One upload request to a route: a file, sent with or without a session.
Upload ==
    /\ component = "ourFileRouter"
    /\ \E route \in Routes, type \in FileTypes, size \in FileSizes,
          session \in BOOLEAN :
          /\ request' = <<[route |-> route, type |-> type, size |-> size,
                           session |-> session]>>
          /\ response' =
                IF Middleware(session) = "ok" /\ FileAllowed(route, type, size)
                THEN "accepted"
                ELSE "rejected"
    /\ op' = "Upload"
    /\ UNCHANGED <<component, error, hasError, tryOnVars, dialogVars,
                   previewVars, viewerVars, calibrationVars, smoothVars>>

NextUpload == Upload

\* ======================= detectAndRender of FaceTracking3DViewer
\* The loop startCamera of the MediaPipe viewer defines, from the point where
\* the camera has been started.  A run of detectAndRender is started by a
\* loadeddata event of the video or by the animation frame an earlier run
\* requested.
\*
\* The smoothed values are JavaScript numbers.  Inside one binade the doubles
\* are the integer multiples of the unit in the last place, so a value is
\* modelled by its distance from the start of the binade in those units,
\* 0 .. MaxUlp.  For such numbers target - old and its product with 0.25 are
\* exact, and the += rounds the sum to the nearest double, ties to even.
Channels == {"posX", "posY", "rotX", "rotY", "rotZ", "scale"}

AlphaInverse == 4

\* The six targets of one frame, for a few face poses: worldX + offsetX,
\* worldY + offsetY, the three angles in radians, faceScale * scale.
FaceTargets ==
    {[posX |-> 0, posY |-> 0, rotX |-> 0, rotY |-> 0, rotZ |-> 0, scale |-> 0],
     [posX |-> MaxUlp, posY |-> MaxUlp - 1, rotX |-> MaxUlp - 2, rotY |-> 3,
      rotZ |-> 2, scale |-> 1],
     [posX |-> 2, posY |-> MaxUlp, rotX |-> 1, rotY |-> MaxUlp - 1,
      rotZ |-> 3, scale |-> MaxUlp]}

\* smooth += (target - smooth) * alpha, for alpha = 0.25.
Smooth_Alpha2(old, t) == old + 2 * (t - old)
\* old + (t - old) / 4 = (3 * old + t) / 4, rounded to nearest, ties to even.
Smooth(old, t) ==
    LET n == (AlphaInverse - 1) * old + t
        q == n \div AlphaInverse
        r == n % AlphaInverse
    IN  IF 2 * r < AlphaInverse THEN q
        ELSE IF 2 * r > AlphaInverse THEN q + 1
        ELSE IF q % 2 = 0 THEN q ELSE q + 1

\* The camera has been started.  The smoothed values are where earlier frames
\* left them; the model is loaded or not (no modelUrl), and the landmarker may
\* still be loading.
InitSmooth ==
    /\ component = "FaceTracking3DViewer.detectAndRender"
    /\ op = "init"
    /\ error = null
    /\ hasError = FALSE
    /\ modelRef \in BOOLEAN
    /\ loopRefs \in BOOLEAN
    /\ smooth \in FaceTargets
    /\ target = << >>
    /\ lm = FALSE
    /\ TryOnIdle
    /\ DialogIdle
    /\ PreviewIdle
    /\ ViewerIdle
    /\ CalibrationIdle
    /\ UploadIdle

\* createFaceLandmarker has resolved: the last of the refs the loop tests.
LandmarkerReady ==
    /\ component = "FaceTracking3DViewer.detectAndRender"
    /\ ~loopRefs
    /\ loopRefs' = TRUE
    /\ op' = "LandmarkerReady"
    /\ UNCHANGED <<component, error, hasError, modelRef, smooth, target, lm,
                   tryOnVars, dialogVars, previewVars, viewerVars,
                   calibrationVars, uploadVars>>

\* One run of detectAndRender: on a frame without a face (NoFace), or with a
\* face whose pose gives the targets t.
NoFace == << >>

DetectAndRender ==
    /\ component = "FaceTracking3DViewer.detectAndRender"
    /\ \E t \in FaceTargets \cup {NoFace} :
          IF ~loopRefs
          THEN /\ lm' = FALSE
               /\ UNCHANGED <<smooth, target>>
          ELSE IF t # NoFace
          THEN /\ lm' = TRUE
               /\ target' = t
               /\ smooth' =
                     IF modelRef
                     THEN [ch \in Channels |-> Smooth(smooth[ch], t[ch])]
                     ELSE smooth
          ELSE /\ lm' = FALSE
               /\ UNCHANGED <<smooth, target>>
    /\ op' = "DetectAndRender"
    /\ UNCHANGED <<component, error, hasError, modelRef, loopRefs, tryOnVars,
                   dialogVars, previewVars, viewerVars, calibrationVars,
                   uploadVars>>

NextSmooth ==
    \/ LandmarkerReady
    \/ DetectAndRender

\* Is an error boundary mounted, and which.
BoundaryMounted ==
    \/ component = "TryOnDialog" /\ Content = "Lazy3DTryOn"
    \/ component = "ClientOnly3DPreview" /\ PreviewRendered = "3d-model-preview"

Init ==
    InitTryOn \/ InitDialog \/ InitPreview \/ InitViewer \/ InitCalibration
    \/ InitUpload \/ InitSmooth

Next ==
    NextTryOn \/ NextDialog \/ NextPreview \/ NextViewer \/ NextCalibration
    \/ NextUpload \/ NextSmooth

Spec == Init /\ [][Next]_vars

\* ================================================================ claims

\* C1: when the dialog is open and the product has no 3D model URL, the 3D
\* try-on (Lazy3DTryOn) is not mounted; the 2D VirtualTryOn is mounted if
\* there is an overlay image URL, and the 'nothing available' message
\* otherwise.
C1_FallbackTo2D ==
    (component = "TryOnDialog" /\ open /\ ~Truthy(model3dUrl)) =>
        /\ Content # "Lazy3DTryOn"
        /\ Truthy(overlayImageUrl) => Content = "VirtualTryOn"
        /\ ~Truthy(overlayImageUrl) => Content = "message"

C1_Witness ==
    /\ component = "TryOnDialog"
    /\ open
    /\ model3dUrl = undefined
    /\ model3dCalibration # undefined
    /\ Content = "VirtualTryOn"

\* C2 as stated: for a product with a 3D model URL the dialog shows the 3D
\* label and, once open, mounts the 3D try-on, whatever the other props are.
C2_Original ==
    (component = "TryOnDialog" /\ Truthy(model3dUrl)) =>
        /\ Label = Label3D
        /\ open => Content = "Lazy3DTryOn"

\* C2 amended: for a product with a 3D model URL and a calibration the
\* dialog shows the 3D label and, once open, mounts the 3D try-on rather
\* than the 2D overlay or the message, whatever the overlay prop is.
C2_With3DModelAndCalibration ==
    (/\ component = "TryOnDialog"
     /\ Truthy(model3dUrl)
     /\ Truthy(model3dCalibration)) =>
        /\ Label = Label3D
        /\ open => Content = "Lazy3DTryOn"

C2_Witness ==
    /\ component = "TryOnDialog"
    /\ open
    /\ Truthy(model3dUrl)
    /\ Truthy(model3dCalibration)
    /\ Truthy(overlayImageUrl)
    /\ Content = "Lazy3DTryOn"

\* C3: after the stop control (stopCamera) is used, no camera stream the
\* component acquired still has running tracks.
C3_StopLeavesNoRunningStream ==
    (component \in TryOnComponents /\ op = "StopCamera") => running = {}

\* C4: when getUserMedia fails during startCamera, startCamera finishes with
\* the error 'Failed to access camera', isStarting false, no stream of this
\* call in streamRef and no detect loop started by this call.
C4_CameraFailure ==
    (component \in TryOnComponents /\ op = "GetUserMediaRejected") =>
        /\ error = MsgCamera
        /\ isStarting = FALSE
        /\ pc = "idle"
        /\ call.stream = 0
        /\ call.loop = FALSE

C4_Witness ==
    /\ component \in TryOnComponents
    /\ op = "GetUserMediaRejected"
    /\ error = MsgCamera
    /\ ~isStarting

\* C8: in Simple3DTryOn, when ensureVisionInitialized throws during
\* startCamera, the error state after startCamera has finished is
\* 'Failed to initialize face detection'.
C8_FaceInitMessage ==
    (component = "Simple3DTryOn" /\ op = "EnsureVisionRejected") =>
        error = MsgFaceInit

\* C9: in Simple3DTryOn, once startCamera has succeeded (landmarker
\* initialised, stream playing, video ready), every iteration of the detect
\* loop runs face detection, and faceData is non-null exactly when the
\* detection found a face.
C9_LoopDetects ==
    (/\ component = "Simple3DTryOn"
     /\ op = "DetectLoop"
     /\ call.loop
     /\ landmarkerRef
     /\ srcObject # 0
     /\ readyState >= 2) =>
        /\ frame \in {"face", "noface", "throw"}
        /\ frame = "face" => faceData # null
        /\ frame = "noface" => faceData = null

\* C5: in the MediaPipe FaceTracking3DViewer, when getUserMedia rejects
\* inside startCamera, the error state becomes non-null and the component
\* renders the error message.
C5_CameraDeniedShowsError ==
    (component = "FaceTracking3DViewer" /\ op = "GetUserMediaRejected") =>
        /\ error # null
        /\ ViewerView = "error"

\* C6: an error boundary that is mounted renders its fallback exactly when
\* a descendant has just thrown while rendering or the same boundary was
\* already rendering the fallback: the fallback appears with the throw,
\* stays while the boundary is mounted, and before any throw the children
\* are rendered.
C6_ErrorBoundaries ==
    [][BoundaryMounted' =>
         ((BoundaryRender(hasError') = "fallback") <=>
             \/ op' = "ChildThrows"
             \/ BoundaryMounted /\ BoundaryRender(hasError) = "fallback")]_vars

C6_Witness ==
    /\ BoundaryMounted
    /\ BoundaryRender(hasError) = "fallback"
    /\ op \in {"DialogProps", "PreviewRerender"}

\* C7: when the error callback of GLTFLoader runs in FaceTracking3DViewer or
\* Simple3DViewer, error becomes 'Failed to load 3D model' and isLoading
\* false, and from then on the error view is rendered instead of the canvas
\* and the loading spinner.
C7_ModelLoadFailure ==
    [][(component \in ViewerComponents) =>
         ((op' = "ModelLoadError" =>
              (error' = MsgModel /\ isLoading' = FALSE /\ ViewerView' = "error"))
          /\ (ViewerView = "error" =>
              (ViewerView' = "error" /\ error' = MsgModel)))]_vars

C7_Witness ==
    /\ component \in ViewerComponents
    /\ op = "ModelLoaded"
    /\ error = MsgModel
    /\ ViewerView = "error"

\* C10: in ClientOnly3DPreview, when WebGL is not supported, the simple
\* fallback preview is what is rendered once its import has resolved.
C10_FallbackRendered ==
    (/\ component = "ClientOnly3DPreview"
     /\ isClient
     /\ ~hasWebGL
     /\ Model3DPreview = "simple-3d-fallback") =>
        PreviewRendered = "simple-3d-fallback"

\* C11: in Basic3DPreview, Simple3DPreview and Model3DPreview, once
\* onCalibrationChange has been called (by a slider change or a reset, each
\* handled in the render the previous one led to), the calibration it was last
\* called with equals the local calibration state in all seven fields.
C11_ReportedIsLocal ==
    (component \in CalibrationPreviews /\ reported # << >>)
        => (\A f \in CalibrationFields : reported[1][f] = localCalibration[f])

C11_Witness ==
    /\ component \in CalibrationPreviews
    /\ op = "SliderChange"
    /\ reported = <<localCalibration>>
    /\ localCalibration.scale = 3
    /\ localCalibration.offsetY = -2
    /\ localCalibration.rotationZ = 180

\* C12: resetCalibration, from any local calibration, sets scale to 1 and the
\* offsets and rotations to 0, passes exactly that calibration to
\* onCalibrationChange when it is given, and a second reset right after the
\* first changes neither.
C12_ResetDefaults ==
    [][(op' = "ResetCalibration") =>
        (/\ localCalibration'.scale = 1
         /\ \A f \in CalibrationFields \ {"scale"} : localCalibration'[f] = 0
         /\ (onCalibrationChange => reported' = <<localCalibration'>>)
         /\ (op = "ResetCalibration" =>
                (localCalibration' = localCalibration /\ reported' = reported)))]_vars

C12_Witness ==
    /\ component \in CalibrationPreviews
    /\ op = "ResetCalibration"
    /\ onCalibrationChange
    /\ reported = <<DefaultCalibration>>
    /\ localCalibration = DefaultCalibration

\* C13: a file the model3dUploader route accepts has type model/gltf-binary
\* or model/gltf+json and is at most 50MB; a file the imageUploader route
\* accepts is an image of at most 4MB.  Any other type and any larger file is
\* not accepted.
C13_UploadAccepts ==
    (component = "ourFileRouter" /\ response = "accepted") =>
        /\ request[1].route = "model3dUploader" =>
              /\ request[1].type \in {"model/gltf-binary", "model/gltf+json"}
              /\ request[1].size <= 50
        /\ request[1].route = "imageUploader" =>
              /\ request[1].type \in {"image/png", "image/jpeg"}
              /\ request[1].size <= 4

C13_Witness ==
    /\ component = "ourFileRouter"
    /\ response = "accepted"
    /\ request[1].route = "model3dUploader"
    /\ request[1].type = "model/gltf-binary"
    /\ request[1].size = 50

\* C14: when toggleCamera is handled while the camera is running (the stream
\* of streamRef is live and no startCamera call is in progress), the camera
\* goes on with the opposite facing mode without another user action: right
\* after the handler a start of the camera is in progress, or streamRef holds
\* a live stream requested with the facing mode isFrontCamera now stands for.
C14_ToggleSwitchesCamera ==
    [][(op' = "ToggleCamera" /\ pc = "idle" /\ streamRef # 0
            /\ streamRef \in running) =>
        (\/ pc' # "idle"
         \/ (streamRef' # 0 /\ streamRef' \in running'
                /\ facingOf'[streamRef'] = FacingMode(isFrontCamera')))]_vars

Dist(a, b) == IF a <= b THEN b - a ELSE a - b

Between(old, new, t) == (old <= new /\ new <= t) \/ (t <= new /\ new <= old)

====
